---------------------------- MODULE Spec2Model ----------------------------
(*************************************************************************)
(* Model of neo4j-client.py: the Neo4jRunner transaction state machine   *)
(* (built on transitions.Machine), the exec_query dispatcher and the     *)
(* three ways cmd() drives it: one-shot (--query), the interactive loop  *)
(* and the batch loop.  One action processes one whole input line,       *)
(* including the except clause that handles what the line raised.        *)
(*************************************************************************)
EXTENDS Integers, Sequences, FiniteSets, TLC

(* Number of input lines a run reads at most. *)
MaxLines == 4

VARIABLES
    pc,         \* position in cmd(): "oneshot", "select", "loop", "exited"
    query_opt,  \* cmd's --query parameter is given
    isatty,     \* sys.stdin.isatty()
    machine,    \* mode of the Neo4jRunner created: "none", "tty", "pipe"
    state,      \* runner.state
    tx,         \* runner.tx: 0 is None, h > 0 is the h-th handle of the session
    query,      \* runner.query: <<>> is None, otherwise the statement text
    handles,    \* handles[h]: number of commit/rollback calls made on handle h
    line_no,    \* cmd's line_no
    exit_code,  \* -1 while the process runs, then its exit code
    step,       \* the part of cmd() that ran last
    line,       \* the raw line processed last
    pre,        \* runner state and handle before that line
    raised,     \* what exec_query (or the one-shot run) raised for it
    hraised,    \* what the recovery trigger raised inside the except clause
    calls,      \* the server calls made while processing it, in order
    diag        \* the diagnostic written for it

vars == <<pc, query_opt, isatty, machine, state, tx, query, handles, line_no,
          exit_code, step, line, pre, raised, hraised, calls, diag>>

--------------------------------------------------------------------------
(* Text.  A line is a sequence of one-character strings. *)

Whitespace == {" ", "\t", "\n"}

RECURSIVE lstrip(_)
lstrip(s) ==
    IF s # <<>> /\ Head(s) \in Whitespace THEN lstrip(Tail(s)) ELSE s

RECURSIVE rstrip(_)
rstrip(s) ==
    IF s # <<>> /\ s[Len(s)] \in Whitespace
    THEN rstrip(SubSeq(s, 1, Len(s) - 1))
    ELSE s

(* str.strip() *)
strip(s) == rstrip(lstrip(s))

(* re.match(r"\s*$", s): $ also matches before one trailing newline, and *)
(* a newline is whitespace, so the match succeeds exactly on all-blank s *)
IsBlank(s) == \A i \in 1..Len(s) : s[i] \in Whitespace

BEGIN == <<":", "b", "e", "g", "i", "n">>
COMMIT == <<":", "c", "o", "m", "m", "i", "t">>
ROLLBACK == <<":", "r", "o", "l", "l", "b", "a", "c", "k">>
DUMP == <<":", "d", "u", "m", "p">>
EXIT == <<":", "e", "x", "i", "t">>

(* The text between the triple quotes of the :dump branch. *)
DumpLiteral ==
    <<"\n", "C", "A", "L", "L", " ", "a", "p", "o", "c", ".", "e", "x", "p",
      "o", "r", "t", ".", "c", "y", "p", "h", "e", "r", ".", "a", "l", "l",
      "(", "\"", "a", "l", "l", ".", "c", "y", "p", "h", "e", "r", "\"", ",",
      " ", "{", "}", ")", "\n">>

(* The raw lines a run may read (without the line terminator). *)
RawLines ==
    { BEGIN, COMMIT, ROLLBACK, DUMP, EXIT,
      <<>>, <<" ", "\t">>,
      <<" ">> \o BEGIN, COMMIT \o <<" ">>, <<"\t">> \o ROLLBACK,
      DUMP \o <<" ">>, <<" ">> \o EXIT \o <<" ">>,
      <<":", "B", "E", "G", "I", "N">>, <<":", "c", "o", "m">>,
      <<"R", "E", "T", "U", "R", "N", " ", "1">> }

--------------------------------------------------------------------------
(* The server.  Every call on the session or on a handle either returns  *)
(* or raises one of the driver's exceptions.                             *)

Reportable == {"CypherSyntaxError", "DatabaseError", "ConstraintError"}
Fatal == {"AuthError", "ServiceUnavailable"}
Outcomes == {"ok"} \cup Reportable \cup Fatal

(* The runner's fields and the session's handles, as one value. *)
World == [state |-> state, tx |-> tx, query |-> query, handles |-> handles,
          calls |-> <<>>]

Call(op, target, outcome) == [op |-> op, target |-> target, outcome |-> outcome]

Result(w, exc) == [w |-> w, exc |-> exc]

--------------------------------------------------------------------------
(* Neo4jRunner *)

T(trigger, source, dest, before, after) ==
    [trigger |-> trigger, source |-> source, dest |-> dest,
     before |-> before, after |-> after]

(* The interactive table with the run transition of state_tx_in leading  *)
(* out of the transaction.                                               *)
TtyTransitions_RunLeavesTx ==
    << T("run", "state_tx_out", "state_tx_out", "none", "action_run"),
       T("begin", "state_tx_out", "state_tx_in", "action_begin_transaction", "none"),
       T("commit", "state_tx_in", "state_tx_out", "none", "action_commit"),
       T("run", "state_tx_in", "state_tx_out", "none", "action_tx_run"),
       T("rollback", "state_tx_in", "state_tx_out", "none", "action_rollback") >>

TtyTransitions ==
    << T("run", "state_tx_out", "state_tx_out", "none", "action_run"),
       T("begin", "state_tx_out", "state_tx_in", "action_begin_transaction", "none"),
       T("commit", "state_tx_in", "state_tx_out", "none", "action_commit"),
       T("run", "state_tx_in", "state_tx_in", "none", "action_tx_run"),
       T("rollback", "state_tx_in", "state_tx_out", "none", "action_rollback") >>

(* The batch table with the syntax_error trigger registered without its  *)
(* rollback callback.                                                    *)
PipeTransitions_NoImplicitRollback ==
    << T("run", "state_tx_out", "state_tx_out", "none", "action_run"),
       T("begin", "state_tx_out", "state_tx_in", "action_begin_transaction", "none"),
       T("commit", "state_tx_in", "state_tx_out", "none", "action_commit"),
       T("run", "state_tx_in", "state_tx_in", "none", "action_tx_run"),
       T("rollback", "state_tx_in", "state_tx_out", "none", "action_rollback"),
       T("syntax_error", "state_tx_in", "state_tx_out", "none", "none"),
       T("syntax_error", "state_tx_out", "state_tx_out", "none", "none"),
       T("rollback", "state_tx_in", "state_tx_out", "none", "action_rollback"),
       T("rollback", "state_tx_out", "state_tx_out", "none", "none") >>

(* The batch table with the recovery triggers bound to the rollback      *)
(* callback from state_tx_out as well.                                   *)
PipeTransitions_RollbackFromIdle ==
    << T("run", "state_tx_out", "state_tx_out", "none", "action_run"),
       T("begin", "state_tx_out", "state_tx_in", "action_begin_transaction", "none"),
       T("commit", "state_tx_in", "state_tx_out", "none", "action_commit"),
       T("run", "state_tx_in", "state_tx_in", "none", "action_tx_run"),
       T("rollback", "state_tx_in", "state_tx_out", "none", "action_rollback"),
       T("syntax_error", "state_tx_in", "state_tx_out", "none", "action_rollback"),
       T("syntax_error", "state_tx_out", "state_tx_out", "none", "action_rollback"),
       T("rollback", "state_tx_in", "state_tx_out", "none", "action_rollback"),
       T("rollback", "state_tx_out", "state_tx_out", "none", "action_rollback") >>

(* The batch table without the recovery transitions from state_tx_out.   *)
PipeTransitions_NoIdleRecovery ==
    << T("run", "state_tx_out", "state_tx_out", "none", "action_run"),
       T("begin", "state_tx_out", "state_tx_in", "action_begin_transaction", "none"),
       T("commit", "state_tx_in", "state_tx_out", "none", "action_commit"),
       T("run", "state_tx_in", "state_tx_in", "none", "action_tx_run"),
       T("rollback", "state_tx_in", "state_tx_out", "none", "action_rollback"),
       T("syntax_error", "state_tx_in", "state_tx_out", "none", "action_rollback"),
       T("rollback", "state_tx_in", "state_tx_out", "none", "action_rollback") >>

PipeTransitions ==
    << T("run", "state_tx_out", "state_tx_out", "none", "action_run"),
       T("begin", "state_tx_out", "state_tx_in", "action_begin_transaction", "none"),
       T("commit", "state_tx_in", "state_tx_out", "none", "action_commit"),
       T("run", "state_tx_in", "state_tx_in", "none", "action_tx_run"),
       T("rollback", "state_tx_in", "state_tx_out", "none", "action_rollback"),
       T("syntax_error", "state_tx_in", "state_tx_out", "none", "action_rollback"),
       T("syntax_error", "state_tx_out", "state_tx_out", "none", "none"),
       T("rollback", "state_tx_in", "state_tx_out", "none", "action_rollback"),
       T("rollback", "state_tx_out", "state_tx_out", "none", "none") >>

Transitions(mode) == IF mode = "tty" THEN TtyTransitions ELSE PipeTransitions

(* result = self.tx.run(self.query); for record in result: print(...) *)
action_tx_run(w, o) ==
    IF w.tx = 0 THEN Result(w, "AttributeError")
    ELSE LET w1 == [w EXCEPT !.calls = Append(@, Call("tx.run", w.tx, o))]
         IN Result(w1, IF o = "ok" THEN "none" ELSE o)

(* result = self.session.run(self.query); ...; self.query = None *)
action_run(w, o) ==
    LET w1 == [w EXCEPT !.calls = Append(@, Call("session.run", 0, o))]
    IN IF o = "ok" THEN Result([w1 EXCEPT !.query = <<>>], "none")
       ELSE Result(w1, o)

(* self.tx = self.session.begin_transaction() *)
action_begin_transaction(w, o) ==
    LET h == Len(w.handles) + 1
        w1 == [w EXCEPT !.calls = Append(@, Call("session.begin_transaction", 0, o))]
    IN IF o = "ok"
       THEN Result([w1 EXCEPT !.tx = h, !.handles = Append(@, 0)], "none")
       ELSE Result(w1, o)

(* self.tx.rollback() *)
action_rollback(w, o) ==
    IF w.tx = 0 THEN Result(w, "AttributeError")
    ELSE LET w1 == [w EXCEPT !.calls = Append(@, Call("tx.rollback", w.tx, o)),
                             !.handles[w.tx] = @ + 1]
         IN Result(w1, IF o = "ok" THEN "none" ELSE o)

(* self.tx.commit() *)
action_commit(w, o) ==
    IF w.tx = 0 THEN Result(w, "AttributeError")
    ELSE LET w1 == [w EXCEPT !.calls = Append(@, Call("tx.commit", w.tx, o)),
                             !.handles[w.tx] = @ + 1]
         IN Result(w1, IF o = "ok" THEN "none" ELSE o)

Callback(name, w, o) ==
    CASE name = "action_run" -> action_run(w, o)
      [] name = "action_tx_run" -> action_tx_run(w, o)
      [] name = "action_begin_transaction" -> action_begin_transaction(w, o)
      [] name = "action_rollback" -> action_rollback(w, o)
      [] name = "action_commit" -> action_commit(w, o)
      [] OTHER -> Result(w, "none")

(* A machine that looks a trigger up without regard to the state. *)
Matching_AnySource(mode, trigger, w) ==
    { i \in 1..Len(Transitions(mode)) : Transitions(mode)[i].trigger = trigger }

(* transitions.Machine: the first transition registered for the trigger  *)
(* from the current state is executed and no other; with none, the       *)
(* trigger raises MachineError.                                          *)
Matching(mode, trigger, w) ==
    { i \in 1..Len(Transitions(mode)) :
        /\ Transitions(mode)[i].trigger = trigger
        /\ Transitions(mode)[i].source = w.state }

(* A transition that changes the state ahead of its before callback. *)
Execute_StateFirst(t, w, o) ==
    LET b == Callback(t.before, [w EXCEPT !.state = t.dest], o)
    IN IF b.exc # "none" THEN b ELSE Callback(t.after, b.w, o)

(* A transition that runs its callbacks and never changes the state. *)
Execute_StateKept(t, w, o) ==
    LET b == Callback(t.before, w, o)
    IN IF b.exc # "none" THEN b ELSE Callback(t.after, b.w, o)

(* A transition whose after callback runs ahead of the state change. *)
Execute_AfterFirst(t, w, o) ==
    LET b == Callback(t.before, w, o)
        a == Callback(t.after, b.w, o)
    IN IF b.exc # "none" THEN b
       ELSE IF a.exc # "none" THEN a
       ELSE Result([a.w EXCEPT !.state = t.dest], "none")

(* Transition.execute: the before callback, the state change, the after  *)
(* callback; an exception leaves what was done so far in place.          *)
Execute(t, w, o) ==
    LET b == Callback(t.before, w, o)
    IN IF b.exc # "none" THEN b
       ELSE Callback(t.after, [b.w EXCEPT !.state = t.dest], o)

(* A machine that executes every transition registered for the trigger   *)
(* from the state the trigger was fired in.                              *)
Trigger_AllMatching(mode, trigger, w, o) ==
    LET m == Matching(mode, trigger, w)
    IN IF m = {} THEN Result(w, "MachineError")
       ELSE LET i == CHOOSE i \in m : \A j \in m : i <= j
                k == CHOOSE k \in m : \A j \in m : j <= k
                first == Execute(Transitions(mode)[i], w, o)
            IN IF k = i \/ first.exc # "none" THEN first
               ELSE Execute(Transitions(mode)[k], first.w, o)

Trigger(mode, trigger, w, o) ==
    LET m == Matching(mode, trigger, w)
    IN IF m = {} THEN Result(w, "MachineError")
       ELSE LET i == CHOOSE i \in m : \A j \in m : i <= j
            IN Execute(Transitions(mode)[i], w, o)

--------------------------------------------------------------------------
(* cmd *)

(* The branch of exec_query a text takes. *)
Classify(q) ==
    IF IsBlank(q) THEN "blank"
    ELSE IF q = BEGIN THEN "begin"
    ELSE IF q = COMMIT THEN "commit"
    ELSE IF q = ROLLBACK THEN "rollback"
    ELSE IF q = DUMP THEN "dump"
    ELSE IF q = EXIT THEN "exit"
    ELSE "statement"

(* A dispatcher that forgets to strip the :dump literal. *)
exec_query_DumpUnstripped(mode, q, w, o) ==
    CASE Classify(q) = "blank" -> Result(w, "none")
      [] Classify(q) = "begin" -> Trigger(mode, "begin", w, o)
      [] Classify(q) = "commit" -> Trigger(mode, "commit", w, o)
      [] Classify(q) = "rollback" -> Trigger(mode, "rollback", w, o)
      [] Classify(q) = "dump" ->
            Trigger(mode, "run", [w EXCEPT !.query = DumpLiteral], o)
      [] Classify(q) = "exit" -> Result(w, "SystemExit")
      [] OTHER -> Trigger(mode, "run", [w EXCEPT !.query = q], o)

exec_query(mode, q, w, o) ==
    CASE Classify(q) = "blank" -> Result(w, "none")
      [] Classify(q) = "begin" -> Trigger(mode, "begin", w, o)
      [] Classify(q) = "commit" -> Trigger(mode, "commit", w, o)
      [] Classify(q) = "rollback" -> Trigger(mode, "rollback", w, o)
      [] Classify(q) = "dump" ->
            Trigger(mode, "run", [w EXCEPT !.query = strip(DumpLiteral)], o)
      [] Classify(q) = "exit" -> Result(w, "SystemExit")
      [] OTHER -> Trigger(mode, "run", [w EXCEPT !.query = q], o)

NoDiag == [kind |-> "none", no |-> 0]
Diag(kind, n) == [kind |-> kind, no |-> n]

(* What becomes of the process after an except clause (or none) ran.     *)
Continue(d) == [pc |-> "loop", exit_code |-> -1, diag |-> d]
Exit(code, d) == [pc |-> "exited", exit_code |-> code, diag |-> d]

(* An outer try that treats SystemExit like any other exception. *)
Outer_ExitNonZero(exc) ==
    IF exc \in Fatal THEN Exit(1, Diag(exc, -1))
    ELSE Exit(1, Diag("traceback", -1))

(* An exception no clause of the loop catches reaches the outer try:     *)
(* AuthError and ServiceUnavailable are reported there and exit with 1,  *)
(* SystemExit carries code 0, anything else ends the process with a      *)
(* traceback and code 1.                                                 *)
Outer(exc) ==
    IF exc \in Fatal THEN Exit(1, Diag(exc, -1))
    ELSE IF exc = "SystemExit" THEN Exit(0, NoDiag)
    ELSE Exit(1, Diag("traceback", -1))

(* The except clauses of the one-shot branch; after one of them ran,     *)
(* control goes on to the isatty test.                                   *)
OneShotExcept(exc, n) ==
    IF exc \in Reportable
    THEN [pc |-> "select", exit_code |-> -1, diag |-> Diag(exc, n)]
    ELSE Outer(exc)

(* An interactive loop that numbers its diagnostics from 0. *)
InteractiveExcept_NumberedFromZero(exc, n) ==
    IF exc = "none" THEN Continue(NoDiag)
    ELSE IF exc = "MachineError" THEN Continue(NoDiag)
    ELSE IF exc \in Reportable THEN Continue(Diag(exc, n - 1))
    ELSE Outer(exc)

(* An interactive loop that reports MachineError like the other errors. *)
InteractiveExcept_MachineErrorReported(exc, n) ==
    IF exc = "none" THEN Continue(NoDiag)
    ELSE IF exc \in Reportable \cup {"MachineError"} THEN Continue(Diag(exc, n))
    ELSE Outer(exc)

(* The except clauses of the interactive loop. *)
InteractiveExcept(exc, n) ==
    IF exc = "none" THEN Continue(NoDiag)
    ELSE IF exc = "MachineError" THEN Continue(NoDiag)
    ELSE IF exc \in Reportable THEN Continue(Diag(exc, n))
    ELSE Outer(exc)

(* The trigger an except clause of the batch loop fires first. *)
Recovery(exc) == IF exc = "CypherSyntaxError" THEN "syntax_error" ELSE "rollback"

(* A batch loop that reports MachineError and goes on. *)
BatchExcept_MachineErrorIgnored(exc, hexc, n) ==
    IF exc = "none" THEN Continue(NoDiag)
    ELSE IF exc = "MachineError" THEN Continue(Diag("MachineError", n))
    ELSE IF exc \in Reportable
    THEN IF hexc # "none" THEN Outer(hexc)
         ELSE IF exc = "ConstraintError" THEN Exit(1, Diag(exc, n))
         ELSE Continue(Diag(exc, n))
    ELSE Outer(exc)

(* The except clauses of the batch loop; hexc is what the recovery       *)
(* trigger raised inside the clause.                                     *)
BatchExcept(exc, hexc, n) ==
    IF exc = "none" THEN Continue(NoDiag)
    ELSE IF exc = "MachineError" THEN Exit(1, Diag("MachineError", n))
    ELSE IF exc \in Reportable
    THEN IF hexc # "none" THEN Outer(hexc)
         ELSE IF exc = "ConstraintError" THEN Exit(1, Diag(exc, n))
         ELSE Continue(Diag(exc, n))
    ELSE Outer(exc)

Init ==
    /\ query_opt \in BOOLEAN
    /\ isatty \in BOOLEAN
    /\ pc = IF query_opt THEN "oneshot" ELSE "select"
    /\ machine = "none"
    /\ state = "none"
    /\ tx = 0
    /\ query = <<>>
    /\ handles = <<>>
    /\ line_no = 0
    /\ exit_code = -1
    /\ step = "init"
    /\ line = <<>>
    /\ pre = [state |-> "none", tx |-> 0]
    /\ raised = "none"
    /\ hraised = "none"
    /\ calls = <<>>
    /\ diag = NoDiag

Store(w) ==
    /\ state' = w.state
    /\ tx' = w.tx
    /\ query' = w.query
    /\ handles' = w.handles
    /\ calls' = w.calls

Observe(s, l, exc, hexc) ==
    /\ step' = s
    /\ line' = l
    /\ pre' = [state |-> state, tx |-> tx]
    /\ raised' = exc
    /\ hraised' = hexc

After(a) ==
    /\ pc' = a.pc
    /\ exit_code' = a.exit_code
    /\ diag' = a.diag

(* if query: session.run(query) ... session.close(); sys.exit() *)
OneShot ==
    /\ pc = "oneshot"
    /\ \E o \in Outcomes :
        LET exc == IF o = "ok" THEN "SystemExit" ELSE o
        IN /\ calls' = <<Call("session.run", 0, o)>>
           /\ Observe("oneshot", line, exc, "none")
           /\ After(OneShotExcept(exc, line_no))
    /\ UNCHANGED <<query_opt, isatty, machine, state, tx, query, handles,
                   line_no>>

(* runner = Neo4jRunner(session) / Neo4jRunner(session, mode="pipe") *)
CreateRunner ==
    /\ pc = "select"
    /\ pc' = "loop"
    /\ machine' = (IF isatty THEN "tty" ELSE "pipe")
    /\ state' = "state_tx_out"
    /\ tx' = 0
    /\ query' = <<>>
    /\ step' = "create"
    /\ UNCHANGED <<query_opt, isatty, handles, line_no, exit_code, line, pre,
                   raised, hraised, calls, diag>>

(* One pass of the while loop of the interactive branch. *)
InteractiveLine ==
    /\ pc = "loop"
    /\ machine = "tty"
    /\ line_no < MaxLines
    /\ \E l \in RawLines, o \in Outcomes :
        LET r == exec_query("tty", l, World, o)
        IN /\ line_no' = line_no + 1
           /\ Store(r.w)
           /\ Observe("line", l, r.exc, "none")
           /\ After(InteractiveExcept(r.exc, line_no'))
    /\ UNCHANGED <<query_opt, isatty, machine>>

(* One pass of the for loop of the batch branch. *)
BatchLine ==
    /\ pc = "loop"
    /\ machine = "pipe"
    /\ line_no < MaxLines
    /\ \E l \in RawLines, o \in Outcomes :
        LET r == exec_query("pipe", strip(l), World, o)
        IN /\ line_no' = line_no + 1
           /\ IF r.exc \in Reportable
              THEN \E o2 \in Outcomes :
                    LET h == Trigger("pipe", Recovery(r.exc), r.w, o2)
                    IN /\ Store(h.w)
                       /\ Observe("line", l, r.exc, h.exc)
                       /\ After(BatchExcept(r.exc, h.exc, line_no'))
              ELSE /\ Store(r.w)
                   /\ Observe("line", l, r.exc, "none")
                   /\ After(BatchExcept(r.exc, "none", line_no'))
    /\ UNCHANGED <<query_opt, isatty, machine>>

(* Input ends: input() raises EOFError in the interactive loop, which    *)
(* no clause catches; the for loop of the batch branch finishes and cmd  *)
(* returns.                                                              *)
EndOfInput ==
    /\ pc = "loop"
    /\ LET exc == IF machine = "tty" THEN "EOFError" ELSE "none"
       IN /\ Observe("eof", line, exc, "none")
          /\ After(IF machine = "tty" THEN Outer(exc) ELSE Exit(0, NoDiag))
    /\ calls' = <<>>
    /\ UNCHANGED <<query_opt, isatty, machine, state, tx, query, handles,
                   line_no>>

Next == OneShot \/ CreateRunner \/ InteractiveLine \/ BatchLine \/ EndOfInput

Spec == Init /\ [][Next]_vars

--------------------------------------------------------------------------
(* Vocabulary of the properties.  They speak of the line processed last. *)

Idle == "state_tx_out"
InTransaction == "state_tx_in"

(* The text exec_query was given for the last line, and its branch. *)
Text == IF machine = "pipe" THEN strip(line) ELSE line
Kind == Classify(Text)

LineDone == step = "line"
Interactive == machine = "tty"
Batch == machine = "pipe"
Running == pc = "loop" /\ exit_code = -1
Exited(code) == pc = "exited" /\ exit_code = code

Ops == [i \in 1..Len(calls) |-> calls[i].op]
RollbackInvokedOn(h) ==
    \E i \in 1..Len(calls) : calls[i].op = "tx.rollback" /\ calls[i].target = h

(* C1: whenever a runner exists, runner.tx is set if and only if the     *)
(* runner is in state_tx_in.                                             *)
C1_HandleIffInTransaction ==
    machine # "none" => ((tx # 0) <=> (state = InTransaction))

(* C2: when nothing is raised, each of the five legal transitions makes  *)
(* exactly one server call, on the right target, and ends in the state   *)
(* of the transition table: a statement in Idle is one session.run and   *)
(* stays Idle; :begin in Idle is one session.begin_transaction, stores   *)
(* the new handle and enters InTransaction; a statement in InTransaction *)
(* is one tx.run on the open handle and stays InTransaction; :commit and *)
(* :rollback in InTransaction are one tx.commit / tx.rollback on the     *)
(* open handle and return to Idle.                                       *)
C2_LegalTransitions ==
    (LineDone /\ raised = "none") =>
        /\ (Kind = "statement" /\ pre.state = Idle) =>
                /\ calls = <<Call("session.run", 0, "ok")>>
                /\ state = Idle
        /\ (Kind = "begin" /\ pre.state = Idle) =>
                /\ calls = <<Call("session.begin_transaction", 0, "ok")>>
                /\ state = InTransaction
                /\ tx = Len(handles) /\ tx # pre.tx /\ handles[tx] = 0
        /\ (Kind = "statement" /\ pre.state = InTransaction) =>
                /\ calls = <<Call("tx.run", pre.tx, "ok")>>
                /\ state = InTransaction /\ tx = pre.tx /\ handles[tx] = 0
        /\ (Kind = "commit" /\ pre.state = InTransaction) =>
                /\ calls = <<Call("tx.commit", pre.tx, "ok")>>
                /\ state = Idle /\ handles[pre.tx] = 1
        /\ (Kind = "rollback" /\ pre.state = InTransaction) =>
                /\ calls = <<Call("tx.rollback", pre.tx, "ok")>>
                /\ state = Idle /\ handles[pre.tx] = 1

(* A statement run as autocommit after a transaction was finished. *)
C2_Witness ==
    /\ LineDone /\ raised = "none" /\ Kind = "statement"
    /\ pre.state = Idle /\ pre.tx # 0 /\ handles[pre.tx] = 1
    /\ calls = <<Call("session.run", 0, "ok")>>

(* C3: a :commit or :rollback issued in InTransaction that returns or    *)
(* raises a reportable error leaves the runner Idle with no handle.      *)
C3_CommitRollbackReleases ==
    (/\ LineDone /\ Kind \in {"commit", "rollback"}
     /\ pre.state = InTransaction
     /\ raised \in {"none"} \cup Reportable) =>
        (state = Idle /\ tx = 0)

(* C4: :begin issued in InTransaction raises MachineError in both modes: *)
(* no server call is made, the handle and the state stay as they were;   *)
(* the interactive loop goes on, the batch run exits with 1.             *)
C4_BeginInTransactionRejected ==
    (LineDone /\ Kind = "begin" /\ pre.state = InTransaction) =>
        /\ raised = "MachineError"
        /\ calls = <<>>
        /\ tx = pre.tx /\ state = InTransaction
        /\ Interactive => Running
        /\ Batch => Exited(1)

C4_Witness ==
    /\ LineDone /\ Kind = "begin" /\ pre.state = InTransaction
    /\ Batch /\ raised = "MachineError" /\ Exited(1)

(* C5 as stated: in batch mode :begin in InTransaction, :commit in Idle  *)
(* and :rollback in Idle each end the run with exit code 1.              *)
C5_BatchIllegalFatal ==
    (/\ LineDone /\ Batch
     /\ \/ Kind = "begin" /\ pre.state = InTransaction
        \/ Kind \in {"commit", "rollback"} /\ pre.state = Idle) =>
        Exited(1)

C5_Lines ==
    (LineDone /\ Batch) =>
        /\ (\/ Kind = "begin" /\ pre.state = InTransaction
            \/ Kind = "commit" /\ pre.state = Idle) =>
                /\ raised = "MachineError"
                /\ diag = Diag("MachineError", line_no)
                /\ calls = <<>>
                /\ Exited(1)
        /\ (Kind = "rollback" /\ pre.state = Idle) =>
                /\ raised = "none"
                /\ diag = NoDiag
                /\ calls = <<>>
                /\ state = Idle /\ tx = pre.tx
                /\ Running

(* C5 amended: in batch mode :begin in InTransaction and :commit in Idle *)
(* raise MachineError and end the run with exit code 1, and once the     *)
(* process has exited no further line is processed; :rollback in Idle is *)
(* a registered transition without callback: nothing is raised, no       *)
(* server call is made, the state stays Idle and the run goes on.        *)
C5_BatchIllegalFatalAmended ==
    /\ []C5_Lines
    /\ [][pc = "exited" => line_no' = line_no /\ pc' = "exited"]_vars

C5_Witness ==
    /\ LineDone /\ Batch /\ Kind = "commit" /\ pre.state = Idle
    /\ raised = "MachineError" /\ Exited(1)

(* C6 as stated: in batch mode a ConstraintError raised on a line ends   *)
(* the run with exit code 1; a CypherSyntaxError or DatabaseError raised *)
(* on a line leaves the run going; exhausted input exits with 0.         *)
C6_BatchErrorPolicy ==
    /\ (LineDone /\ Batch /\ raised = "ConstraintError") => Exited(1)
    /\ (LineDone /\ Batch /\ raised \in {"CypherSyntaxError", "DatabaseError"}) =>
            Running
    /\ (step = "eof" /\ Batch) => Exited(0)

(* C7 as stated: in batch mode a reportable error raised by a line       *)
(* processed in InTransaction has rollback invoked on the open handle    *)
(* and leaves the runner Idle; raised in Idle, no rollback is invoked    *)
(* and the runner stays Idle.                                            *)
C7_BatchErrorRollsBack ==
    (LineDone /\ Batch /\ raised \in Reportable) =>
        /\ state = Idle
        /\ pre.state = InTransaction => RollbackInvokedOn(pre.tx)
        /\ pre.state = Idle => \A h \in 1..Len(handles) : ~RollbackInvokedOn(h)

(* C7 amended: in batch mode, after a line that raised a reportable      *)
(* error the runner is Idle.  If the line was a statement or :dump       *)
(* processed in InTransaction, the failed tx.run is followed by exactly  *)
(* one rollback call on the open handle.  If it was :rollback, the       *)
(* failed rollback call is the only call; if it was :commit, the failed  *)
(* commit call is the only call and no rollback is invoked, because the  *)
(* runner was already Idle when the error reached the except clause.     *)
(* Raised in Idle, the error causes no call on any handle.               *)
C7_BatchErrorRollsBackAmended ==
    (LineDone /\ Batch /\ raised \in Reportable) =>
        /\ state = Idle
        /\ tx = pre.tx
        /\ (pre.state = InTransaction /\ Kind \in {"statement", "dump"}) =>
                /\ Ops = <<"tx.run", "tx.rollback">>
                /\ calls[1] = Call("tx.run", pre.tx, raised)
                /\ calls[2].target = pre.tx
        /\ (pre.state = InTransaction /\ Kind = "rollback") =>
                calls = <<Call("tx.rollback", pre.tx, raised)>>
        /\ (pre.state = InTransaction /\ Kind = "commit") =>
                calls = <<Call("tx.commit", pre.tx, raised)>>
        /\ pre.state = Idle =>
                /\ Len(calls) = 1
                /\ calls[1].target = 0
                /\ calls[1].outcome = raised

C7_Witness ==
    /\ LineDone /\ Batch /\ raised = "CypherSyntaxError"
    /\ pre.state = InTransaction /\ Kind = "statement"
    /\ calls = <<Call("tx.run", pre.tx, raised), Call("tx.rollback", pre.tx, "ok")>>
    /\ state = Idle /\ Running

(* C8 as stated: in interactive mode a line that raises a reportable     *)
(* error leaves the runner in the state it was in, and the loop goes on. *)
C8_InteractiveErrorKeepsState ==
    (LineDone /\ Interactive /\ raised \in Reportable) =>
        (state = pre.state /\ Running)

(* C8 amended: in interactive mode a line that raises a reportable error *)
(* is reported with its line number and the loop goes on with the same   *)
(* handle stored; the state is the one before the line when the line was *)
(* a statement, :dump or :begin, and it is Idle when the line was a      *)
(* :commit or :rollback issued in InTransaction, whose state change      *)
(* precedes the server call.                                             *)
C8_InteractiveErrorKeepsStateAmended ==
    (LineDone /\ Interactive /\ raised \in Reportable) =>
        /\ Running
        /\ diag = Diag(raised, line_no)
        /\ tx = pre.tx
        /\ Kind \in {"statement", "dump", "begin"} => state = pre.state
        /\ Kind \in {"commit", "rollback"} =>
                (pre.state = InTransaction /\ state = Idle)
        /\ Kind \in {"statement", "dump", "begin", "commit", "rollback"}

C8_Witness ==
    /\ LineDone /\ Interactive /\ raised = "ConstraintError"
    /\ Kind = "statement" /\ pre.state = InTransaction
    /\ state = InTransaction /\ Running

(* C9: in interactive mode :commit or :rollback in Idle and :begin in    *)
(* InTransaction raise MachineError, which is dropped: no diagnostic, no *)
(* server call, state and handle as before, and the loop goes on.        *)
C9_InteractiveIllegalIgnored ==
    (/\ LineDone /\ Interactive
     /\ \/ Kind = "begin" /\ pre.state = InTransaction
        \/ Kind \in {"commit", "rollback"} /\ pre.state = Idle) =>
        /\ raised = "MachineError"
        /\ diag = NoDiag
        /\ calls = <<>>
        /\ state = pre.state /\ tx = pre.tx
        /\ Running

C9_Witness ==
    /\ LineDone /\ Interactive /\ Kind = "rollback" /\ pre.state = Idle
    /\ raised = "MachineError" /\ diag = NoDiag /\ Running

(* C10 as stated: with --query the client makes one autocommit run and   *)
(* exits without creating the runner or reading a line: with code 0 when *)
(* the run succeeds, with a non-zero code when it raises a reportable    *)
(* error.                                                                *)
C10_OneShotTerminates ==
    (query_opt /\ pc # "oneshot") =>
        /\ pc = "exited"
        /\ machine = "none"
        /\ line_no = 0
        /\ Ops = <<"session.run">>
        /\ raised = "SystemExit" => exit_code = 0
        /\ raised \in Reportable => exit_code > 0

(* C11 as stated: in both modes the branch exec_query takes for a line   *)
(* is the one of the line's whitespace-trimmed text, and a blank line    *)
(* makes no server call and changes nothing.                             *)
C11_ClassifiedOnTrimmedText ==
    LineDone =>
        /\ Kind = Classify(strip(line))
        /\ Kind = "blank" =>
                (calls = <<>> /\ state = pre.state /\ tx = pre.tx /\ raised = "none")

(* The fixed export statement, as it is sent. *)
DumpQuery ==
    <<"C", "A", "L", "L", " ", "a", "p", "o", "c", ".", "e", "x", "p",
      "o", "r", "t", ".", "c", "y", "p", "h", "e", "r", ".", "a", "l", "l",
      "(", "\"", "a", "l", "l", ".", "c", "y", "p", "h", "e", "r", "\"", ",",
      " ", "{", "}", ")">>

(* C12 as stated: :dump is sent to the session's autocommit run in every *)
(* state, never to a transaction handle, and leaves the state unchanged. *)
C12_DumpIsAutocommit ==
    (LineDone /\ Kind = "dump") =>
        /\ Len(calls) >= 1
        /\ calls[1].op = "session.run"
        /\ \A i \in 1..Len(calls) : calls[i].op # "tx.run"
        /\ state = pre.state

(* C12 amended: :dump is run like any other statement, with the fixed    *)
(* export text: issued in Idle it is one autocommit session.run and the  *)
(* state stays Idle; issued in InTransaction it is one tx.run on the     *)
(* open handle, never a session.run, the pending statement is the export *)
(* text, and the state stays InTransaction unless the run raises a       *)
(* reportable error in batch mode, where the forced rollback returns the *)
(* runner to Idle.                                                       *)
C12_DumpIsAutocommitAmended ==
    (LineDone /\ Kind = "dump") =>
        /\ Len(calls) >= 1
        /\ pre.state = Idle =>
                /\ Ops = <<"session.run">>
                /\ state = Idle
        /\ pre.state = InTransaction =>
                /\ calls[1].op = "tx.run" /\ calls[1].target = pre.tx
                /\ \A i \in 1..Len(calls) : calls[i].op # "session.run"
                /\ query = DumpQuery
                /\ state = (IF Batch /\ raised \in Reportable
                            THEN Idle ELSE InTransaction)
        /\ tx = pre.tx

C12_Witness ==
    /\ LineDone /\ Kind = "dump" /\ pre.state = InTransaction
    /\ calls = <<Call("tx.run", pre.tx, "ok")>>
    /\ state = InTransaction /\ query = DumpQuery

(* C13 as stated: after an autocommit run was dispatched the pending     *)
(* statement is cleared, whether the run returned or raised.             *)
C13_QueryClearedAfterRun ==
    (LineDone /\ Len(calls) >= 1 /\ calls[1].op = "session.run") =>
        query = <<>>

C14_Line ==
    (LineDone /\ Kind = "exit") =>
        /\ raised = "SystemExit"
        /\ Exited(0)
        /\ calls = <<>>
        /\ diag = NoDiag
        /\ state = pre.state /\ tx = pre.tx

(* C14: the :exit directive, in either state and either mode, raises     *)
(* SystemExit: the process exits with code 0 without any server call and *)
(* without touching the runner, and after the exit no line is processed  *)
(* and no server call is made.                                           *)
C14_ExitTerminates ==
    /\ []C14_Line
    /\ [][pc = "exited" => UNCHANGED <<pc, line_no, calls, handles, state>>]_vars

C14_Witness ==
    /\ LineDone /\ Kind = "exit" /\ pre.state = InTransaction
    /\ Interactive /\ Exited(0) /\ calls = <<>> /\ handles[pre.tx] = 0

(* C15 as stated: every diagnostic written to the error stream carries   *)
(* a line number of at least 1.                                          *)
C15_DiagnosticsNumbered ==
    diag.kind \in Reportable \cup Fatal \cup {"MachineError"} => diag.no >= 1

C15_Diag ==
    /\ (LineDone /\ diag.kind \in Reportable \cup {"MachineError"}) =>
            (diag.no = line_no /\ diag.no >= 1)
    /\ (step = "oneshot" /\ diag.kind \in Reportable) => diag.no = 0
    /\ diag.kind \in Fatal => diag.no = -1

(* C15 amended: every diagnostic the interactive and batch loops write   *)
(* for a line (syntax, constraint, database error; MachineError in batch *)
(* mode) is prefixed with the 1-based number of that line, every line    *)
(* read advancing the number by one; the diagnostics of the one-shot     *)
(* branch carry the number 0, and the AuthError and ServiceUnavailable   *)
(* diagnostics carry no number.                                          *)
C15_DiagnosticsNumberedAmended ==
    /\ []C15_Diag
    /\ [][step' = "line" => line_no' = line_no + 1]_vars

C15_Witness ==
    /\ LineDone /\ diag.kind = "DatabaseError" /\ diag.no = 2
    /\ pre.state = Idle /\ Kind = "statement"

C16_Line ==
    /\ (/\ LineDone /\ Interactive /\ Kind = "statement"
        /\ pre.state = InTransaction /\ raised = "ConstraintError") =>
            /\ calls = <<Call("tx.run", pre.tx, "ConstraintError")>>
            /\ diag = Diag("ConstraintError", line_no)
            /\ state = InTransaction /\ tx = pre.tx /\ handles[tx] = 0
            /\ Running

(* C16: in interactive mode a statement that raises ConstraintError in   *)
(* an open transaction is reported and makes no rollback call: the state *)
(* stays InTransaction with the same handle, not finished, and a         *)
(* statement on the next line is sent to that same handle.               *)
C16_InteractiveConstraintKeepsTx ==
    /\ []C16_Line
    /\ [][(/\ LineDone /\ Interactive /\ Kind = "statement"
           /\ pre.state = InTransaction /\ raised = "ConstraintError"
           /\ step' = "line" /\ line_no' = line_no + 1 /\ Kind' = "statement")
            => (Len(calls') = 1 /\ calls'[1].op = "tx.run"
                /\ calls'[1].target = tx)]_vars

C16_Witness ==
    /\ LineDone /\ Interactive /\ Kind = "statement"
    /\ pre.state = InTransaction /\ raised = "ConstraintError"
    /\ state = InTransaction /\ Running

Finish == {"tx.commit", "tx.rollback"}

(* The commit and rollback calls the last line made on handle h. *)
Finished(h) ==
    { i \in 1..Len(calls) : calls[i].op \in Finish /\ calls[i].target = h }

(* C17: at most one commit-or-rollback call is ever made on a handle,    *)
(* and every call a line makes on a handle is made on the handle stored  *)
(* in the runner, which is the one the last successful :begin returned,  *)
(* before any commit or rollback call on it.                             *)
C17_NoUseAfterFinish ==
    /\ \A h \in 1..Len(handles) : handles[h] <= 1
    /\ LineDone =>
        \A i \in 1..Len(calls) :
            calls[i].target > 0 =>
                /\ calls[i].target = pre.tx
                /\ calls[i].target = Len(handles)
                /\ \A j \in 1..(i - 1) : calls[j].op \notin Finish
                /\ handles[calls[i].target] = Cardinality(Finished(calls[i].target))

(* A statement sent to a second handle after the first was finished. *)
C17_Witness ==
    /\ LineDone /\ Batch
    /\ Len(handles) = 2 /\ handles[1] = 1
    /\ Len(calls) = 2 /\ calls[1].op = "tx.run" /\ calls[1].target = 2
    /\ calls[2].op = "tx.rollback" /\ calls[2].target = 2

C18_Line ==
    (LineDone /\ Kind = "begin" /\ pre.state = Idle /\ raised # "none") =>
        /\ calls = <<Call("session.begin_transaction", 0, raised)>>
        /\ state = Idle
        /\ tx = pre.tx

(* C18: when session.begin_transaction raises for a :begin issued in     *)
(* Idle, the state stays Idle and neither the stored handle nor the      *)
(* session's handles change; a statement on the next line is an          *)
(* autocommit run.                                                       *)
C18_FailedBeginStaysIdle ==
    /\ []C18_Line
    /\ [][(step' = "line" /\ Kind' = "begin" /\ state = Idle /\ raised' # "none")
            => (handles' = handles /\ tx' = tx /\ state' = Idle)]_vars
    /\ [][(/\ LineDone /\ Kind = "begin" /\ pre.state = Idle /\ raised # "none"
           /\ step' = "line" /\ line_no' = line_no + 1 /\ Kind' = "statement")
            => Ops' = <<"session.run">>]_vars

C18_Witness ==
    /\ LineDone /\ Kind = "begin" /\ pre.state = Idle
    /\ raised = "DatabaseError" /\ state = Idle /\ Running

(* C19: in batch mode the recovery trigger fired by the except clause of *)
(* a reportable error never raises MachineError, whatever the state was  *)
(* before the line; fired in Idle it raises nothing and makes no call.   *)
C19_RecoveryAlwaysLegal ==
    (LineDone /\ Batch /\ raised \in Reportable) =>
        /\ hraised # "MachineError"
        /\ (pre.state = Idle \/ Kind \in {"commit", "rollback"}) =>
                (hraised = "none" /\ Len(calls) = 1)

C19_Witness ==
    /\ LineDone /\ Batch /\ raised = "DatabaseError"
    /\ pre.state = Idle /\ Kind = "statement"
    /\ hraised = "none" /\ state = Idle /\ Running

(* C20: in batch mode a :rollback issued in InTransaction, or a rollback *)
(* forced by the except clause of a statement that failed in             *)
(* InTransaction, makes exactly one rollback call on the open handle and *)
(* leaves the runner Idle, although the transition is registered twice.  *)
C20_RollbackOnce ==
    (/\ LineDone /\ Batch /\ pre.state = InTransaction
     /\ \/ Kind = "rollback"
        \/ Kind \in {"statement", "dump"} /\ raised \in Reportable) =>
        /\ Cardinality({i \in 1..Len(calls) : calls[i].op = "tx.rollback"}) = 1
        /\ Finished(pre.tx) = {Len(calls)}
        /\ handles[pre.tx] = 1
        /\ state = Idle

C20_Witness ==
    /\ LineDone /\ Batch /\ pre.state = InTransaction /\ Kind = "rollback"
    /\ calls = <<Call("tx.rollback", pre.tx, "ok")>>
    /\ handles[pre.tx] = 1 /\ state = Idle /\ Running

==========================================================================
